---- MODULE Spec2Model ----
(***************************************************************************)
(* A model of the OSS-backed certmagic storage (storage/storage.go): the   *)
(* key/value adapter (Store, Load, Delete, Exists) with its codec, and the *)
(* lease-based lock (Lock, Unlock) built on the bucket's create-if-absent  *)
(* put.  The bucket is one map from object keys to objects; a lock marker  *)
(* is the object at key + ".lock".                                         *)
(*                                                                         *)
(* Time is a global integer clock.  One model time unit stands for several *)
(* seconds: LockExpiration and LockPollInterval keep their order           *)
(* (LockPollInterval < LockExpiration), not their ratio.  The bucket's     *)
(* LastModified and the callers' time.Now() read the same clock.           *)
(*                                                                         *)
(* A request that fails (transport error, cancelled context) has no effect *)
(* on the bucket.                                                          *)
(***************************************************************************)
EXTENDS Integers, Sequences, FiniteSets, TLC

\* ------------------------------------------------------------------ bounds
\* The clock stops at MaxTime.
MaxTime == 6
\* At most MaxFaults requests fail with a transport error in a run.
MaxFaults == 1
\* Values stored are byte strings of at most MaxLen bytes.
MaxLen == 1
\* The most entries the bucket returns in one page of a listing.
PageSize == 2

\* --------------------------------------------------------- program constants
\* storage.go:21  LockExpiration = 1 * time.Minute   (in model time units)
LockExpiration == 3
\* storage.go:23  LockPollInterval = 1 * time.Second (in model time units)
LockPollInterval == 2

\* ------------------------------------------------------------------- domains
\* The callers: independent processes sharing the bucket.
Procs == {"p1", "p2"}
\* The logical keys callers lock.  A key is a sequence of characters; the
\* suffix ".lock" is written as one symbol.
LockKeys == {<<"r">>}
\* The logical keys of callers that lock two different keys.
TwoLockKeys == LockKeys \cup {<<"s">>}
\* The keys callers store data at.
DataKeys == {<<"a">>, <<"a", "/", "b">>}
\* Byte values.
Bytes == {1, 2}
Values == UNION {[1..n -> Bytes] : n \in 0..MaxLen}
\* The codec a Storage is constructed with (NewStorage: config.AEAD or cleartext).
Codecs == {"cleartext", "aead"}

objLockName(key) ==
    key \o <<".lock">>

\* A certificate key three levels deep, and the keys callers store and list.
CertKey == <<"certs", "/", "example.com", "/", "cert.pem">>
ListKeys == DataKeys \cup {CertKey}
\* The prefixes callers list.
ListPrefixes ==
    {<<>>, <<"a">>, <<"a", "/">>, <<"certs", "/", "example.com">>,
     <<"certs", "/", "example.com", "/">>}

ObjKeys == ListKeys \cup {objLockName(k) : k \in TwoLockKeys}

\* The characters of keys in byte order.
Alphabet == <<".lock", "/", "a", "b", "cert.pem", "certs", "example.com", "r", "s">>

\* The stored bytes of an object.  Cleartext bytes are the plaintext itself;
\* an AEAD ciphertext seals a plaintext together with its associated data.
Plain(v) == [sealed |-> FALSE, ad |-> <<>>, pt |-> v]
Sealed(v, ad) == [sealed |-> TRUE, ad |-> ad, pt |-> v]

NoObj == [present |-> FALSE, body |-> Plain(<<>>), modified |-> 0, by |-> "none"]
Obj(body, t, who) == [present |-> TRUE, body |-> body, modified |-> t, by |-> who]

\* The owner of a marker found in the bucket at start: a holder that crashed.
Dead == "dead"

VARIABLES
    objects,    \* the bucket: object key -> object (or NoObj)
    now,        \* the clock
    aead,       \* the codec of the Storage
    faults,     \* transport errors injected so far
    pc,         \* per caller: where it is in Lock ("idle" outside, "held" after success)
    key,        \* per caller: the key of its current or last Lock call
    ctxDone,    \* per caller: its context has been cancelled
    wake,       \* per caller: when its time.After(LockPollInterval) fires
    ret,        \* per caller: what its last Lock or Unlock call returned
    lease,      \* per caller holding the lock: when its marker was created (history)
    reclaimed,  \* per caller in Lock: the markers this call has deleted, as they
                \* were when deleted: "stale" or "live" (history)
    waited,     \* per caller in Lock: this call has waited in a select (history)
    released,   \* per caller in Lock: when the holder's Unlock of its key was
                \* answered while the call waited on a live context ("at"), and
                \* whether a call made after that Unlock has acquired the lock
                \* within LockPollInterval of it ("taken"); kept until the
                \* call, or a call that waited with it, returns (history)
    cancelAt,   \* per caller in Lock: when its context was cancelled, if that
                \* happened while it waited on a marker that had not expired (history)
    initMarker, \* the bucket held a crashed holder's marker at start (history)
    relock,     \* some caller has invoked Lock more than once (history)
    misuse,     \* some Unlock was called by a caller that did not hold the lock (history)
    resp,       \* the last key/value call and its result
    prevResp,   \* the key/value call before it
    written     \* per data key: the value of the last successful Store not followed by a Delete

vars == <<objects, now, aead, faults, pc, key, ctxDone, wake, ret, lease, reclaimed,
          waited, cancelAt, released, initMarker, relock, misuse, resp, prevResp, written>>

lockVars == <<pc, key, ctxDone, wake, ret, lease, reclaimed, waited, cancelAt, released,
             initMarker,
              relock, misuse>>
kvVars == <<resp, prevResp, written>>

\* ------------------------------------------------------- the bucket's requests
\* Each returns the service's answer code and the bucket afterwards.

\* A PutObject that never overwrites: an existing object is kept as it is.
PutObject_KeepsExisting(objs, k, body, forbidOverwrite, t, who) ==
    IF objs[k].present
    THEN [code |-> IF forbidOverwrite THEN "FileAlreadyExists" ELSE "OK", objs |-> objs]
    ELSE [code |-> "OK", objs |-> [objs EXCEPT ![k] = Obj(body, t, who)]]

\* A PutObject that never overwrites, whatever ForbidOverwrite says.
PutObject_NeverOverwrites(objs, k, body, forbidOverwrite, t, who) ==
    IF objs[k].present
    THEN [code |-> "FileAlreadyExists", objs |-> objs]
    ELSE [code |-> "OK", objs |-> [objs EXCEPT ![k] = Obj(body, t, who)]]

\* A PutObject that overwrites whatever ForbidOverwrite says.
PutObject_Overwrites(objs, k, body, forbidOverwrite, t, who) ==
    [code |-> "OK", objs |-> [objs EXCEPT ![k] = Obj(body, t, who)]]

\* PutObject; with ForbidOverwrite it creates the object only if it is absent.
PutObject(objs, k, body, forbidOverwrite, t, who) ==
    IF forbidOverwrite /\ objs[k].present
    THEN [code |-> "FileAlreadyExists", objs |-> objs]
    ELSE [code |-> "OK", objs |-> [objs EXCEPT ![k] = Obj(body, t, who)]]

DeleteObject(objs, k) ==
    IF objs[k].present
    THEN [code |-> "OK", objs |-> [objs EXCEPT ![k] = NoObj]]
    ELSE [code |-> "NoSuchKey", objs |-> objs]

\* The bytes of a stored body as the bucket holds them: a ciphertext is its
\* plaintext and the bytes the AEAD adds, written 0.
RawBytes(body) ==
    IF body.sealed THEN <<0>> \o body.pt ELSE body.pt

HeadObject(objs, k) ==
    IF objs[k].present
    THEN [code |-> "OK", LastModified |-> objs[k].modified,
          ContentLength |-> Len(RawBytes(objs[k].body))]
    ELSE [code |-> "NoSuchKey", LastModified |-> 0, ContentLength |-> 0]

GetObject(objs, k) ==
    IF objs[k].present
    THEN [code |-> "OK", Body |-> objs[k].body]
    ELSE [code |-> "NoSuchKey", Body |-> Plain(<<>>)]

CharRank(c) == CHOOSE i \in 1..Len(Alphabet) : Alphabet[i] = c

\* The bucket's order of keys: byte by byte, a proper prefix first.
KeyLess(a, b) ==
    \E i \in 1..(Len(a) + 1) :
        /\ i <= Len(b)
        /\ \A j \in 1..(i - 1) : a[j] = b[j]
        /\ (i = Len(a) + 1 \/ CharRank(a[i]) < CharRank(b[i]))

HasPrefix(k, prefix) ==
    Len(prefix) <= Len(k) /\ SubSeq(k, 1, Len(prefix)) = prefix

\* What follows the prefix in a key that starts with it.
Remainder(k, prefix) == SubSeq(k, Len(prefix) + 1, Len(k))

\* The position of the first delimiter in s, 0 if there is none.
DelimiterIndex(s, delimiter) ==
    IF \E i \in 1..Len(s) : s[i] = delimiter
    THEN CHOOSE i \in 1..Len(s) :
             s[i] = delimiter /\ \A j \in 1..(i - 1) : s[j] # delimiter
    ELSE 0

\* The entry a listing shows for key k: the key itself, or, with a delimiter
\* that occurs after the prefix, the common prefix up to that delimiter.
ListEntry(k, prefix, delimiter) ==
    LET at == DelimiterIndex(Remainder(k, prefix), delimiter)
    IN IF delimiter # "" /\ at > 0
       THEN [common |-> TRUE, name |-> SubSeq(k, 1, Len(prefix) + at)]
       ELSE [common |-> FALSE, name |-> k]

RECURSIVE SortEntries(_)
SortEntries(es) ==
    IF es = {} THEN <<>>
    ELSE LET first == CHOOSE e \in es :
                          \A f \in es \ {e} : KeyLess(e.name, f.name)
         IN <<first>> \o SortEntries(es \ {first})

\* A listing that leaves out the keys that end in ".lock".
ListEntries_NoMarkers(objs, prefix, delimiter) ==
    SortEntries({ListEntry(k, prefix, delimiter) :
                    k \in {x \in DOMAIN objs : /\ objs[x].present /\ HasPrefix(x, prefix)
                                               /\ x[Len(x)] # ".lock"}})

\* All entries of a listing, in the bucket's order.
ListEntries(objs, prefix, delimiter) ==
    SortEntries({ListEntry(k, prefix, delimiter) :
                    k \in {x \in DOMAIN objs : objs[x].present /\ HasPrefix(x, prefix)}})

\* ListObjectsV2: one page of at most PageSize entries after the first
\* `token` entries; object keys in Contents, grouped keys in CommonPrefixes.
ListObjectsV2(objs, prefix, delimiter, token) ==
    LET all == ListEntries(objs, prefix, delimiter)
        last == IF token + PageSize < Len(all) THEN token + PageSize ELSE Len(all)
        page == SubSeq(all, token + 1, last)
    IN [Contents |-> SelectSeq(page, LAMBDA e : ~e.common),
        CommonPrefixes |-> SelectSeq(page, LAMBDA e : e.common),
        IsTruncated |-> last < Len(all),
        NextContinuationToken |-> last]

\* A request may fail with a transport error while the fault budget lasts.
FaultChoices == IF faults < MaxFaults THEN {FALSE, TRUE} ELSE {FALSE}

\* ---------------------------------------------------------------- the lock

LoopStates == {"put", "head", "delete", "waitHeadErr", "waitDeleteErr", "waitNotExpired"}
WaitStates == {"waitHeadErr", "waitDeleteErr", "waitNotExpired"}
NoTime == 0 - 1

\* What a call returned (op, err), with notes on the call's history:
\*   had               Unlock: the marker was present when Unlock was called
\*   again             Unlock: the caller's previous call was an Unlock too
\*   ctxWasDone        Unlock: the caller's context was already cancelled
\*   reclaimed         Lock: the call deleted a marker before it returned
\*   tookLive          Lock: the call deleted a marker that was not stale
\*   waited            Lock: the call waited in a select before it returned
\*   cancelledWaiting  Lock: the context was cancelled while the call waited
\*                     on a marker that had not expired
Ret(op, err) ==
    [op |-> op, err |-> err, had |-> FALSE, again |-> FALSE, ctxWasDone |-> FALSE,
     reclaimed |-> FALSE, tookLive |-> FALSE, waited |-> FALSE,
     cancelledWaiting |-> FALSE]
NoRet == Ret("none", "none")

\* A marker name that does not depend on the key.
lockKey_OneName(p) ==
    objLockName(<<"r">>)

lockKey(p) == objLockName(key[p])

\* A staleness check that leaves LockExpiration out.
Expired_NoLease(lastModified, t) ==
    lastModified < t

\* result.LastModified.Add(LockExpiration).Before(time.Now().UTC())
Expired(lastModified, t) ==
    lastModified + LockExpiration < t

\* History only: a marker's "by" names its creator while it was created by the
\* creator's latest Lock call; a marker of an earlier call is relabelled.
Relabel(objs, p) ==
    [k \in ObjKeys |-> IF objs[k].present /\ objs[k].by = p
                       THEN [objs[k] EXCEPT !.by = "earlier"] ELSE objs[k]]

NoRelease == [at |-> NoTime, taken |-> FALSE]

\* History only: when a call acquires the lock, its note of a release is
\* dropped.  If it had one, so are the notes of the calls that waited with
\* it; if it had none, it is a call made after the release, and the waiting
\* calls whose release is no older than LockPollInterval note that.
Acquired(p) ==
    [r \in Procs |->
        IF r = p \/ (released[p].at # NoTime /\ key[r] = key[p])
        THEN NoRelease
        ELSE IF /\ key[r] = key[p] /\ released[r].at # NoTime
                /\ now <= released[r].at + LockPollInterval
             THEN [released[r] EXCEPT !.taken = TRUE]
             ELSE released[r]]

\* History only: the Unlock(k) of holder p is answered at this time, and the
\* calls that wait for k on a live context take note of it.
Released(p, k) ==
    [r \in Procs |-> IF r # p /\ key[r] = k /\ pc[r] \in WaitStates /\ ~ctxDone[r]
                     THEN [at |-> now, taken |-> FALSE] ELSE released[r]]

\* A caller invokes Lock(ctx, k) with a live context.
LockCall(p, k) ==
    /\ pc[p] = "idle"
    /\ pc' = [pc EXCEPT ![p] = "put"]
    /\ key' = [key EXCEPT ![p] = k]
    /\ ctxDone' = [ctxDone EXCEPT ![p] = FALSE]
    /\ ret' = [ret EXCEPT ![p] = Ret("Lock", "pending")]
    /\ relock' = (relock \/ ret[p].op # "none")
    /\ objects' = Relabel(objects, p)
    /\ UNCHANGED <<now, aead, faults, wake, lease, reclaimed, waited, cancelAt, released,
                   initMarker,
                   misuse, kvVars>>

\* Leaving Lock with an error.
LockReturn(p, err) ==
    /\ pc' = [pc EXCEPT ![p] = "idle"]
    /\ ret' = [ret EXCEPT ![p] = [Ret("Lock", err) EXCEPT
                                     !.reclaimed = (reclaimed[p] # {}),
                                     !.tookLive = ("live" \in reclaimed[p]),
                                     !.waited = waited[p],
                                     !.cancelledWaiting = (cancelAt[p] # NoTime)]]
    /\ reclaimed' = [reclaimed EXCEPT ![p] = {}]
    /\ waited' = [waited EXCEPT ![p] = FALSE]
    /\ cancelAt' = [cancelAt EXCEPT ![p] = NoTime]
    /\ released' = [released EXCEPT ![p] = NoRelease]

\* A Lock that takes every error of its put for contention.
IsAlreadyExists_Any(code) ==
    TRUE

\* A Lock that takes no error of its put for contention.
IsAlreadyExists_Never(code) ==
    FALSE

\* The error codes of the put that mean the marker already exists.
IsAlreadyExists(code) ==
    code \in {"PreconditionFailed", "ObjectAlreadyExists", "FileAlreadyExists"}

\* The conditional put of the marker, and what Lock does with its answer: nil
\* returns nil, an already-exists error leads to the head, any other error is
\* returned wrapped.
LockPut(p) ==
    /\ pc[p] = "put"
    /\ \E fault \in FaultChoices :
        LET r == PutObject(objects, lockKey(p), Plain(<<>>), TRUE, now, p)
            code == IF ctxDone[p] THEN "context canceled"
                    ELSE IF fault THEN "transport" ELSE r.code
        IN
        /\ faults' = IF code = "transport" THEN faults + 1 ELSE faults
        /\ objects' = IF code \in {"context canceled", "transport"} THEN objects ELSE r.objs
        /\ IF code = "OK"
           THEN /\ pc' = [pc EXCEPT ![p] = "held"]
                /\ ret' = [ret EXCEPT ![p] = [Ret("Lock", "nil") EXCEPT
                                                 !.reclaimed = (reclaimed[p] # {}),
                                                 !.tookLive = ("live" \in reclaimed[p]),
                                                 !.waited = waited[p],
                                                 !.cancelledWaiting = (cancelAt[p] # NoTime)]]
                /\ lease' = [lease EXCEPT ![p] = now]
                /\ reclaimed' = [reclaimed EXCEPT ![p] = {}]
                /\ waited' = [waited EXCEPT ![p] = FALSE]
                /\ cancelAt' = [cancelAt EXCEPT ![p] = NoTime]
                /\ released' = Acquired(p)
           ELSE IF IsAlreadyExists(code)
                THEN /\ pc' = [pc EXCEPT ![p] = "head"]
                     /\ UNCHANGED <<ret, lease, reclaimed, waited, cancelAt, released>>
                ELSE /\ LockReturn(p, "creating lock: " \o code)
                     /\ UNCHANGED lease
    /\ UNCHANGED <<now, aead, key, ctxDone, wake, initMarker, relock, misuse, kvVars>>

\* A select that waits twice the interval.
StartWait_Slow(p, state) ==
    /\ pc' = [pc EXCEPT ![p] = state]
    /\ wake' = [wake EXCEPT ![p] = now + 2 * LockPollInterval]
    /\ waited' = [waited EXCEPT ![p] = TRUE]

\* A select whose timer is ready at once.
StartWait_NoDelay(p, state) ==
    /\ pc' = [pc EXCEPT ![p] = state]
    /\ wake' = [wake EXCEPT ![p] = now]
    /\ waited' = [waited EXCEPT ![p] = TRUE]

\* Entering one of the three selects on time.After(LockPollInterval) / ctx.Done().
StartWait(p, state) ==
    /\ pc' = [pc EXCEPT ![p] = state]
    /\ wake' = [wake EXCEPT ![p] = now + LockPollInterval]
    /\ waited' = [waited EXCEPT ![p] = TRUE]

\* A Lock that takes the NoSuchKey answer of its head for an answer to go on with.
HeadFailed_UnlessNotFound(code) ==
    code \notin {"OK", "NoSuchKey"}

\* if err != nil after the head: every error, NoSuchKey too.
HeadFailed(code) ==
    code # "OK"

\* The head of the marker and the staleness check on its answer: on any error
\* the call waits; a marker seen as expired is deleted; otherwise the call waits.
LockHead(p) ==
    /\ pc[p] = "head"
    /\ \E fault \in FaultChoices :
        LET r == HeadObject(objects, lockKey(p))
            code == IF ctxDone[p] THEN "context canceled"
                    ELSE IF fault THEN "transport" ELSE r.code
        IN
        /\ faults' = IF code = "transport" THEN faults + 1 ELSE faults
        /\ IF HeadFailed(code)
           THEN StartWait(p, "waitHeadErr")
           ELSE IF Expired(r.LastModified, now)
                THEN pc' = [pc EXCEPT ![p] = "delete"] /\ UNCHANGED <<wake, waited>>
                ELSE StartWait(p, "waitNotExpired")
    /\ UNCHANGED <<objects, now, aead, key, ctxDone, ret, lease, reclaimed, cancelAt, released,
                   initMarker, relock, misuse, kvVars>>

\* A Lock that takes NoSuchKey from its delete for a failure.
DeleteIsDone_Strict(code) ==
    code = "OK"

\* The answers of the delete after which Lock tries the put again at once.
DeleteIsDone(code) ==
    code \in {"OK", "NoSuchKey"}

\* The delete of a marker seen as expired: done or already gone, the put is
\* tried again; on any other error the call waits.
LockDelete(p) ==
    /\ pc[p] = "delete"
    /\ \E fault \in FaultChoices :
        LET r == DeleteObject(objects, lockKey(p))
            code == IF ctxDone[p] THEN "context canceled"
                    ELSE IF fault THEN "transport" ELSE r.code
        IN
        /\ faults' = IF code = "transport" THEN faults + 1 ELSE faults
        /\ objects' = IF code \in {"context canceled", "transport"} THEN objects ELSE r.objs
        /\ reclaimed' = [reclaimed EXCEPT ![p] =
                IF code = "OK" /\ objects[lockKey(p)].present
                THEN @ \cup {IF Expired(objects[lockKey(p)].modified, now)
                             THEN "stale" ELSE "live"}
                ELSE @]
        /\ IF DeleteIsDone(code)
           THEN pc' = [pc EXCEPT ![p] = "put"] /\ UNCHANGED <<wake, waited>>
           ELSE StartWait(p, "waitDeleteErr")
    /\ UNCHANGED <<now, aead, key, ctxDone, ret, lease, cancelAt, released, initMarker, relock,
                   misuse, kvVars>>

\* A select whose timer case is taken before the interval has elapsed.
WaitTimeout_Early(p) ==
    /\ pc[p] \in WaitStates
    /\ pc' = [pc EXCEPT ![p] = "put"]
    /\ wake' = [wake EXCEPT ![p] = 0]
    /\ UNCHANGED <<objects, now, aead, faults, key, ctxDone, ret, lease, reclaimed,
                   waited, cancelAt, released, initMarker, relock, misuse, kvVars>>

\* case <-time.After(LockPollInterval): continue
WaitTimeout(p) ==
    /\ pc[p] \in WaitStates
    /\ now >= wake[p]
    /\ pc' = [pc EXCEPT ![p] = "put"]
    /\ wake' = [wake EXCEPT ![p] = 0]
    /\ UNCHANGED <<objects, now, aead, faults, key, ctxDone, ret, lease, reclaimed,
                   waited, cancelAt, released, initMarker, relock, misuse, kvVars>>

\* A select without the ctx.Done() case.
WaitCancel_Never(p) ==
    FALSE

\* A select whose ctx.Done() case returns nil: the caller takes the lock as acquired.
WaitCancel_ReturnsNil(p) ==
    /\ pc[p] \in WaitStates
    /\ ctxDone[p]
    /\ pc' = [pc EXCEPT ![p] = "held"]
    /\ ret' = [ret EXCEPT ![p] = [Ret("Lock", "nil") EXCEPT
                                     !.reclaimed = (reclaimed[p] # {}),
                                     !.tookLive = ("live" \in reclaimed[p]),
                                     !.waited = waited[p],
                                     !.cancelledWaiting = (cancelAt[p] # NoTime)]]
    /\ lease' = [lease EXCEPT ![p] = now]
    /\ reclaimed' = [reclaimed EXCEPT ![p] = {}]
    /\ waited' = [waited EXCEPT ![p] = FALSE]
    /\ cancelAt' = [cancelAt EXCEPT ![p] = NoTime]
    /\ released' = [released EXCEPT ![p] = NoRelease]
    /\ wake' = [wake EXCEPT ![p] = 0]
    /\ UNCHANGED <<objects, now, aead, faults, key, ctxDone, initMarker, relock,
                   misuse, kvVars>>

\* A cancelled wait that removes the marker on its way out.
WaitCancel_Cleanup(p) ==
    /\ pc[p] \in WaitStates
    /\ ctxDone[p]
    /\ LockReturn(p, "context canceled")
    /\ wake' = [wake EXCEPT ![p] = 0]
    /\ objects' = DeleteObject(objects, lockKey(p)).objs
    /\ UNCHANGED <<now, aead, faults, key, ctxDone, lease, initMarker, relock,
                   misuse, kvVars>>

\* case <-ctx.Done(): return ctx.Err()
WaitCancel(p) ==
    /\ pc[p] \in WaitStates
    /\ ctxDone[p]
    /\ LockReturn(p, "context canceled")
    /\ wake' = [wake EXCEPT ![p] = 0]
    /\ UNCHANGED <<objects, now, aead, faults, key, ctxDone, lease, initMarker, relock,
                   misuse, kvVars>>

\* The caller's context is cancelled, during Lock or while it holds the lock.
Cancel(p) ==
    /\ pc[p] \in LoopStates \cup {"held"}
    /\ ~ctxDone[p]
    /\ ctxDone' = [ctxDone EXCEPT ![p] = TRUE]
    /\ cancelAt' = [cancelAt EXCEPT ![p] = IF pc[p] = "waitNotExpired" THEN now ELSE NoTime]
    /\ released' = [released EXCEPT ![p] = NoRelease]
    /\ UNCHANGED <<objects, now, aead, faults, pc, key, wake, ret, lease, reclaimed,
                   waited, initMarker, relock, misuse, kvVars>>

\* An Unlock that runs its delete on the caller's context.
UnlockCtxDone_Caller(p) ==
    ctxDone[p]

\* deleteCtx := context.Background(): the delete of Unlock runs on a context
\* that is never cancelled, whatever the state of the caller's.
UnlockCtxDone(p) ==
    FALSE

\* An Unlock that reports NoSuchKey as an error.
UnlockResult_Strict(code) ==
    IF code = "OK" THEN "nil" ELSE "deleting lock: " \o code

\* What Unlock returns for the answer of its delete: NoSuchKey is ignored.
UnlockResult(code) ==
    IF code \in {"OK", "NoSuchKey"} THEN "nil" ELSE "deleting lock: " \o code

\* An Unlock that removes the marker only if the caller's Lock created it.
Unlock_OwnOnly(p, k) ==
    /\ pc[p] \in {"idle", "held"}
    /\ \E fault \in FaultChoices :
        LET failed == UnlockCtxDone(p) \/ fault
            r == DeleteObject(objects, objLockName(k))
            code == IF UnlockCtxDone(p) THEN "context canceled"
                    ELSE IF fault THEN "transport" ELSE r.code
        IN
        /\ faults' = IF fault /\ ~UnlockCtxDone(p) THEN faults + 1 ELSE faults
        /\ objects' = IF failed \/ objects[objLockName(k)].by # p THEN objects ELSE r.objs
        /\ ret' = [ret EXCEPT ![p] = [Ret("Unlock", UnlockResult(code)) EXCEPT
                                         !.had = objects[objLockName(k)].present,
                                         !.again = (ret[p].op = "Unlock"),
                                         !.ctxWasDone = ctxDone[p]]]
    /\ pc' = [pc EXCEPT ![p] = "idle"]
    /\ key' = [key EXCEPT ![p] = k]
    /\ lease' = [lease EXCEPT ![p] = NoTime]
    /\ misuse' = (misuse \/ ~(pc[p] = "held" /\ key[p] = k))
    /\ UNCHANGED <<now, aead, ctxDone, wake, reclaimed, waited, cancelAt, initMarker,
                   relock, kvVars>>

\* Unlock(ctx, k): one delete of the marker.
Unlock(p, k) ==
    /\ pc[p] \in {"idle", "held"}
    /\ \E fault \in FaultChoices :
        LET failed == UnlockCtxDone(p) \/ fault
            r == DeleteObject(objects, objLockName(k))
            code == IF UnlockCtxDone(p) THEN "context canceled"
                    ELSE IF fault THEN "transport" ELSE r.code
        IN
        /\ faults' = IF fault /\ ~UnlockCtxDone(p) THEN faults + 1 ELSE faults
        /\ objects' = IF failed THEN objects ELSE r.objs
        /\ ret' = [ret EXCEPT ![p] = [Ret("Unlock", UnlockResult(code)) EXCEPT
                                         !.had = objects[objLockName(k)].present,
                                         !.again = (ret[p].op = "Unlock"),
                                         !.ctxWasDone = ctxDone[p]]]
    /\ pc' = [pc EXCEPT ![p] = "idle"]
    /\ key' = [key EXCEPT ![p] = k]
    /\ lease' = [lease EXCEPT ![p] = NoTime]
    /\ misuse' = (misuse \/ ~(pc[p] = "held" /\ key[p] = k))
    /\ UNCHANGED <<now, aead, ctxDone, wake, reclaimed, waited, cancelAt, initMarker,
                   relock, kvVars>>

\* ------------------------------------------- the check-then-act variant
\* A lock that is not the one of this Storage: it heads the marker, and when
\* the head finds none it writes the marker with a put that may overwrite.

CheckThenActCall(p, k) ==
    /\ pc[p] = "idle"
    /\ pc' = [pc EXCEPT ![p] = "check"]
    /\ key' = [key EXCEPT ![p] = k]
    /\ ret' = [ret EXCEPT ![p] = Ret("Lock", "pending")]
    /\ relock' = (relock \/ ret[p].op # "none")
    /\ objects' = Relabel(objects, p)
    /\ UNCHANGED <<now, aead, faults, ctxDone, wake, lease, reclaimed, waited, cancelAt, released,
                   initMarker, misuse, kvVars>>

\* The check: on NoSuchKey the caller goes on to write, otherwise it waits.
CheckThenActHead(p) ==
    /\ pc[p] = "check"
    /\ IF HeadObject(objects, lockKey(p)).code = "NoSuchKey"
       THEN pc' = [pc EXCEPT ![p] = "act"] /\ UNCHANGED <<wake, waited>>
       ELSE StartWait(p, "checkWait")
    /\ UNCHANGED <<objects, now, aead, faults, key, ctxDone, ret, lease, reclaimed,
                   cancelAt, released, initMarker, relock, misuse, kvVars>>

CheckThenActRetry(p) ==
    /\ pc[p] = "checkWait"
    /\ now >= wake[p]
    /\ pc' = [pc EXCEPT ![p] = "check"]
    /\ wake' = [wake EXCEPT ![p] = 0]
    /\ UNCHANGED <<objects, now, aead, faults, key, ctxDone, ret, lease, reclaimed,
                   waited, cancelAt, released, initMarker, relock, misuse, kvVars>>

\* The act: a put without ForbidOverwrite; nil returns nil.
CheckThenActPut(p) ==
    /\ pc[p] = "act"
    /\ LET r == PutObject(objects, lockKey(p), Plain(<<>>), FALSE, now, p) IN
       /\ objects' = r.objs
       /\ IF r.code = "OK"
          THEN /\ pc' = [pc EXCEPT ![p] = "held"]
               /\ ret' = [ret EXCEPT ![p] = [Ret("Lock", "nil") EXCEPT !.waited = waited[p]]]
               /\ lease' = [lease EXCEPT ![p] = now]
               /\ waited' = [waited EXCEPT ![p] = FALSE]
               /\ UNCHANGED <<reclaimed, cancelAt, released>>
          ELSE /\ LockReturn(p, "creating lock: " \o r.code)
               /\ UNCHANGED lease
    /\ UNCHANGED <<now, aead, faults, key, ctxDone, wake, initMarker, relock, misuse,
                   kvVars>>

\* ------------------------------------------------------------- the codec

\* An encryption that passes no associated data.
Encrypt_NoAD(codec, plaintext, ad) ==
    IF codec = "cleartext" THEN Plain(plaintext) ELSE Sealed(plaintext, <<>>)

\* cleartext.Encrypt returns the plaintext; an AEAD seals it with the
\* associated data.
Encrypt(codec, plaintext, ad) ==
    IF codec = "cleartext" THEN Plain(plaintext) ELSE Sealed(plaintext, ad)

\* An AEAD that opens a ciphertext whatever associated data sealed it.
Decrypt_IgnoresAD(codec, body, ad) ==
    IF codec = "cleartext"
    THEN [err |-> FALSE, pt |-> IF body.sealed THEN <<0>> \o body.pt ELSE body.pt]
    ELSE [err |-> ~body.sealed, pt |-> IF body.sealed THEN body.pt ELSE <<>>]

\* cleartext.Decrypt returns the stored bytes as they are (0 stands for the
\* bytes an AEAD adds); an AEAD opens only what was sealed with the same
\* associated data.
Decrypt(codec, body, ad) ==
    IF codec = "cleartext"
    THEN [err |-> FALSE, pt |-> IF body.sealed THEN <<0>> \o body.pt ELSE body.pt]
    ELSE IF body.sealed /\ body.ad = ad
         THEN [err |-> FALSE, pt |-> body.pt]
         ELSE [err |-> TRUE, pt |-> <<>>]

\* ------------------------------------------------------- the key/value store

\* The zero value of certmagic.KeyInfo.
NoInfo == [Key |-> <<>>, Modified |-> 0, Size |-> 0, IsTerminal |-> FALSE]

\* The last key/value call: its arguments, what it returned (err; val of Load;
\* ok of Exists; info of Stat; names of List, whose key is the prefix), and
\* notes: fault (a request of it failed in transport), pre (the key was present
\* when it was called), recursive (the argument of List), pages (the page
\* requests List made).
Resp(op, k, arg, err, val, ok, fault) ==
    [op |-> op, key |-> k, arg |-> arg, err |-> err, val |-> val, ok |-> ok,
     fault |-> fault, pre |-> (k \in DOMAIN objects /\ objects[k].present),
     info |-> NoInfo, names |-> <<>>, recursive |-> FALSE, pages |-> 0]

\* Of the call before the last, the KeyInfo and the names are not kept.
Record(r) ==
    /\ resp' = r
    /\ prevResp' = [resp EXCEPT !.info = NoInfo, !.names = <<>>]

NoValue == [present |-> FALSE, val |-> <<>>]
Value(v) == [present |-> TRUE, val |-> v]

\* A Store whose object is written also when the call returns an error.
Store_WritesOnError(k, v) ==
    /\ \E fault \in FaultChoices :
        LET encrypted == Encrypt(aead, v, k)
            r == PutObject(objects, k, encrypted, FALSE, now, "store")
        IN
        /\ faults' = IF fault THEN faults + 1 ELSE faults
        /\ objects' = r.objs
        /\ written' = IF fault THEN written ELSE [written EXCEPT ![k] = Value(v)]
        /\ Record(Resp("Store", k, v, IF fault THEN "writing object: transport" ELSE "nil",
                       <<>>, FALSE, fault))
    /\ UNCHANGED <<now, aead, lockVars>>

\* Store(ctx, key, value): encrypt, then an overwriting PutObject.
Store(k, v) ==
    /\ \E fault \in FaultChoices :
        LET encrypted == Encrypt(aead, v, k)
            r == PutObject(objects, k, encrypted, FALSE, now, "store")
        IN
        /\ faults' = IF fault THEN faults + 1 ELSE faults
        /\ objects' = IF fault THEN objects ELSE r.objs
        /\ written' = IF fault THEN written ELSE [written EXCEPT ![k] = Value(v)]
        /\ Record(Resp("Store", k, v, IF fault THEN "writing object: transport" ELSE "nil",
                       <<>>, FALSE, fault))
    /\ UNCHANGED <<now, aead, lockVars>>

\* Load(ctx, key): GetObject, NoSuchKey becomes fs.ErrNotExist, then decrypt.
Load(k) ==
    /\ \E fault \in FaultChoices :
        LET r == GetObject(objects, k)
            d == Decrypt(aead, r.Body, k)
            err == IF fault THEN "loading object: transport"
                   ELSE IF r.code = "NoSuchKey" THEN "fs.ErrNotExist"
                   ELSE IF d.err THEN "decrypting object"
                   ELSE "nil"
        IN
        /\ faults' = IF fault THEN faults + 1 ELSE faults
        /\ Record(Resp("Load", k, <<>>, err, IF err = "nil" THEN d.pt ELSE <<>>, FALSE, fault))
    /\ UNCHANGED <<objects, now, aead, lockVars, written>>

\* A Delete that reports NoSuchKey as an error.
DeleteResult_Strict(code) ==
    IF code = "OK" THEN "nil" ELSE "deleting object: " \o code

\* What Delete returns for the answer of its DeleteObject: NoSuchKey is ignored.
DeleteResult(code) ==
    IF code \in {"OK", "NoSuchKey"} THEN "nil" ELSE "deleting object: " \o code

\* Delete(ctx, key): one DeleteObject.
Delete(k) ==
    /\ \E fault \in FaultChoices :
        LET r == DeleteObject(objects, k)
            code == IF fault THEN "transport" ELSE r.code
        IN
        /\ faults' = IF fault THEN faults + 1 ELSE faults
        /\ objects' = IF fault THEN objects ELSE r.objs
        /\ written' = IF fault THEN written ELSE [written EXCEPT ![k] = NoValue]
        /\ Record(Resp("Delete", k, <<>>, DeleteResult(code), <<>>, FALSE, fault))
    /\ UNCHANGED <<now, aead, lockVars>>

\* An Exists that forgets to look at the error.
ExistsResult_Always(code) ==
    TRUE

\* An Exists that takes only NoSuchKey for absence.
ExistsResult_UnlessNotFound(code) ==
    code # "NoSuchKey"

\* What Exists returns for the answer of its HeadObject: true only without error.
ExistsResult(code) ==
    code = "OK"

\* Exists(ctx, key): one HeadObject.
Exists(k) ==
    /\ \E fault \in FaultChoices :
        LET r == HeadObject(objects, k)
            code == IF fault THEN "transport" ELSE r.code
        IN
        /\ faults' = IF fault THEN faults + 1 ELSE faults
        /\ Record(Resp("Exists", k, <<>>, "none", <<>>, ExistsResult(code), fault))
    /\ UNCHANGED <<objects, now, aead, lockVars, written>>

\* Outside the Storage, someone with access to the bucket places the bytes
\* that Store(from, v) wrote at another key.
CopyObject(from, to) ==
    /\ from # to
    /\ objects[from].present /\ objects[from].by = "store" /\ written[from].present
    /\ objects' = [objects EXCEPT ![to] = Obj(objects[from].body, now, "copy")]
    /\ Record(Resp("Copy", to, from, "none", written[from].val, FALSE, FALSE))
    /\ UNCHANGED <<now, aead, faults, lockVars, written>>

\* A Stat that wraps every error of its HeadObject.
StatResult_Wrapped(code) ==
    IF code = "OK" THEN "nil" ELSE "loading attributes: " \o code

\* What Stat returns for the answer of its HeadObject: NoSuchKey becomes
\* fs.ErrNotExist, any other error is wrapped.
StatResult(code) ==
    IF code = "OK" THEN "nil"
    ELSE IF code = "NoSuchKey" THEN "fs.ErrNotExist"
    ELSE "loading attributes: " \o code

\* A KeyInfo whose Size is left at its zero value.
StatInfo_NoSize(k, head) ==
    [Key |-> k, Modified |-> head.LastModified, Size |-> 0, IsTerminal |-> TRUE]

\* The KeyInfo Stat fills in from the answer of its HeadObject.
StatInfo(k, head) ==
    [Key |-> k, Modified |-> head.LastModified, Size |-> head.ContentLength,
     IsTerminal |-> TRUE]

\* Stat(ctx, key): one HeadObject.
Stat(k) ==
    /\ \E fault \in FaultChoices :
        LET r == HeadObject(objects, k)
            code == IF fault THEN "transport" ELSE r.code
            r0 == Resp("Stat", k, <<>>, StatResult(code), <<>>, FALSE, fault)
        IN
        /\ faults' = IF fault THEN faults + 1 ELSE faults
        /\ Record(IF code = "OK" THEN [r0 EXCEPT !.info = StatInfo(k, r)] ELSE r0)
    /\ UNCHANGED <<objects, now, aead, lockVars, written>>

\* A List that asks for no delimiter whatever `recursive` is.
ListDelimiter_None(recursive) ==
    ""

\* The delimiter of the request: "/" unless the listing is recursive.
ListDelimiter(recursive) ==
    IF recursive THEN "" ELSE "/"

\* The number of page requests a listing of the bucket takes.
PageCount(objs, prefix, delimiter) ==
    LET n == Len(ListEntries(objs, prefix, delimiter))
    IN IF n = 0 THEN 1 ELSE (n + PageSize - 1) \div PageSize

\* A List that reads the first page only.
ListLoop_FirstPage(prefix, delimiter, token, n, failAt, names) ==
    IF n = failAt
    THEN [err |-> "listing objects: transport", names |-> <<>>, pages |-> n]
    ELSE [err |-> "nil",
          names |-> [i \in 1..Len(ListObjectsV2(objects, prefix, delimiter, token).Contents)
                        |-> ListObjectsV2(objects, prefix, delimiter, token).Contents[i].name],
          pages |-> n]

\* The loop over the pages: request n fails if n = failAt, and the call returns
\* the error and no names; otherwise the keys of the page's Contents are
\* appended, and the loop ends after the page that is not truncated.
RECURSIVE ListLoop(_, _, _, _, _, _)
ListLoop(prefix, delimiter, token, n, failAt, names) ==
    IF n = failAt
    THEN [err |-> "listing objects: transport", names |-> <<>>, pages |-> n]
    ELSE LET page == ListObjectsV2(objects, prefix, delimiter, token)
             appended == names \o [i \in 1..Len(page.Contents) |-> page.Contents[i].name]
         IN IF page.IsTruncated
            THEN ListLoop(prefix, delimiter, page.NextContinuationToken, n + 1,
                          failAt, appended)
            ELSE [err |-> "nil", names |-> appended, pages |-> n]

\* List(ctx, prefix, recursive): the pages of one ListObjectsV2 listing.
List(prefix, recursive) ==
    /\ \E failAt \in {0} \cup (IF faults < MaxFaults
                               THEN 1..PageCount(objects, prefix, ListDelimiter(recursive))
                               ELSE {}) :
        LET r == ListLoop(prefix, ListDelimiter(recursive), 0, 1, failAt, <<>>)
        IN
        /\ faults' = IF failAt > 0 THEN faults + 1 ELSE faults
        /\ Record([Resp("List", prefix, <<>>, r.err, <<>>, FALSE, failAt > 0)
                      EXCEPT !.names = r.names, !.recursive = recursive,
                             !.pages = r.pages])
    /\ UNCHANGED <<objects, now, aead, lockVars, written>>

\* ------------------------------------------------------------------ time

\* No caller has a step to take at once: none is between two requests, and
\* none sits in a select one of whose cases is ready.
Quiescent ==
    \A p \in Procs :
        /\ pc[p] \notin {"put", "head", "delete"}
        /\ pc[p] \in WaitStates => (now < wake[p] /\ ~ctxDone[p])

Tick ==
    /\ now < MaxTime
    /\ now' = now + 1
    /\ UNCHANGED <<objects, aead, faults, lockVars, kvVars>>

\* Time passes only when no caller has a step to take at once.
TickUrgent ==
    /\ Quiescent
    /\ Tick

NoResp ==
    [op |-> "none", key |-> <<>>, arg |-> <<>>, err |-> "none", val |-> <<>>, ok |-> FALSE,
     fault |-> FALSE, pre |-> FALSE, info |-> NoInfo, names |-> <<>>,
     recursive |-> FALSE, pages |-> 0]

InitLock ==
    /\ now = 0
    /\ faults = 0
    /\ pc = [p \in Procs |-> "idle"]
    /\ key \in [Procs -> LockKeys]
    /\ ctxDone = [p \in Procs |-> FALSE]
    /\ wake = [p \in Procs |-> 0]
    /\ ret = [p \in Procs |-> NoRet]
    /\ lease = [p \in Procs |-> NoTime]
    /\ reclaimed = [p \in Procs |-> {}]
    /\ waited = [p \in Procs |-> FALSE]
    /\ cancelAt = [p \in Procs |-> NoTime]
    /\ released = [p \in Procs |-> NoRelease]
    /\ relock = FALSE
    /\ misuse = FALSE

InitKV ==
    /\ resp = NoResp
    /\ prevResp = NoResp
    /\ written = [k \in ListKeys |-> NoValue]

\* The bucket holds no data; of a lock key it holds no marker, or the marker
\* of a holder that crashed at time 0.
Init ==
    /\ objects \in {[k \in ObjKeys |-> NoObj]}
                   \cup {[k \in ObjKeys |-> IF k = objLockName(r)
                                            THEN Obj(Plain(<<>>), 0, Dead) ELSE NoObj]
                         : r \in LockKeys}
    /\ initMarker = (\E k \in ObjKeys : objects[k].present)
    /\ aead = "cleartext"
    /\ InitLock
    /\ InitKV

LockStep ==
    \/ \E p \in Procs, k \in LockKeys : LockCall(p, k)
    \/ \E p \in Procs : LockPut(p)
    \/ \E p \in Procs : LockHead(p)
    \/ \E p \in Procs : LockDelete(p)
    \/ \E p \in Procs : WaitTimeout(p)
    \/ \E p \in Procs : WaitCancel(p)
    \/ \E p \in Procs : Cancel(p)
    \/ \E p \in Procs, k \in LockKeys : Unlock(p, k) /\ UNCHANGED released

\* The lock protocol with callers and the clock running at any speed.
Next ==
    \/ LockStep
    \/ Tick

Spec == Init /\ [][Next]_vars

\* The lock protocol with requests that take no time and timers that fire on time.
NextTimed ==
    \/ LockStep
    \/ TickUrgent

SpecTimed == Init /\ [][NextTimed]_vars

\* The Unlock of a holder, with the note of it that the waiting calls take
\* when it is answered.
UnlockNoted(p) ==
    /\ pc[p] = "held"
    /\ Unlock(p, key[p])
    /\ released' = IF faults' = faults THEN Released(p, key[p]) ELSE released

\* The timed lock protocol with callers that unlock the key they hold, and
\* with a record of the releases that waiting calls have seen.
NextRelease ==
    \/ \E p \in Procs, k \in LockKeys : LockCall(p, k)
    \/ \E p \in Procs : LockPut(p)
    \/ \E p \in Procs : LockHead(p)
    \/ \E p \in Procs : LockDelete(p)
    \/ \E p \in Procs : WaitTimeout(p)
    \/ \E p \in Procs : WaitCancel(p)
    \/ \E p \in Procs : Cancel(p)
    \/ \E p \in Procs : UnlockNoted(p)
    \/ TickUrgent

SpecRelease == Init /\ [][NextRelease]_vars

\* The steps of a caller's Lock call.
LockProgress(p) ==
    LockPut(p) \/ LockHead(p) \/ LockDelete(p) \/ WaitTimeout(p) \/ WaitCancel(p)

\* The timed lock protocol with callers that unlock the key they hold, in
\* which a Lock call that can take a step takes one; the clock may stop.
NextCancel ==
    \/ \E p \in Procs, k \in LockKeys : LockCall(p, k)
    \/ \E p \in Procs : LockProgress(p)
    \/ \E p \in Procs : Cancel(p)
    \/ \E p \in Procs : pc[p] = "held" /\ Unlock(p, key[p]) /\ UNCHANGED released
    \/ TickUrgent

SpecCancel ==
    Init /\ [][NextCancel]_vars /\ \A p \in Procs : WF_vars(LockProgress(p))

\* The lock protocol with callers that lock either of two keys, on a bucket
\* that is empty at start; no context is cancelled, and a caller unlocks the
\* key it holds.
InitTwoKeys ==
    /\ objects = [k \in ObjKeys |-> NoObj]
    /\ initMarker = FALSE
    /\ aead = "cleartext"
    /\ InitLock
    /\ InitKV

NextTwoKeys ==
    \/ \E p \in Procs, k \in TwoLockKeys : LockCall(p, k)
    \/ \E p \in Procs : LockPut(p)
    \/ \E p \in Procs : LockHead(p)
    \/ \E p \in Procs : LockDelete(p)
    \/ \E p \in Procs : WaitTimeout(p)
    \/ \E p \in Procs : pc[p] = "held" /\ Unlock(p, key[p]) /\ UNCHANGED released
    \/ Tick

SpecTwoKeys == InitTwoKeys /\ [][NextTwoKeys]_vars

\* No caller has made a Lock or Unlock call yet, and no time has passed.
NoLockCallYet ==
    now = 0 /\ \A p \in Procs : pc[p] = "idle" /\ ret[p] = NoRet

\* A bucket that may hold the marker of a crashed holder, on which the callers
\* either run the lock protocol (requests take no time, timers fire on time)
\* or make key/value calls on data keys.
NextMarkers ==
    \/ resp = NoResp /\ NextTimed
    \/ NoLockCallYet /\ \E k \in DataKeys : Store(k, <<>>)
    \/ NoLockCallYet /\ \E k \in DataKeys : Load(k)
    \/ NoLockCallYet /\ \E k \in DataKeys : Delete(k)
    \/ NoLockCallYet /\ \E k \in DataKeys : Exists(k)
    \/ NoLockCallYet /\ \E k \in DataKeys : Stat(k)
    \/ NoLockCallYet /\ \E recursive \in BOOLEAN : List(<<>>, recursive)

SpecMarkers == Init /\ [][NextMarkers]_vars

\* Callers that lock with the check-then-act variant, on a bucket that is
\* empty at start, and unlock the key they hold.
NextCheckThenAct ==
    \/ \E p \in Procs, k \in LockKeys : CheckThenActCall(p, k)
    \/ \E p \in Procs : CheckThenActHead(p)
    \/ \E p \in Procs : CheckThenActRetry(p)
    \/ \E p \in Procs : CheckThenActPut(p)
    \/ \E p \in Procs : pc[p] = "held" /\ Unlock(p, key[p]) /\ UNCHANGED released
    \/ Tick

SpecCheckThenAct == InitTwoKeys /\ [][NextCheckThenAct]_vars

\* A Storage with either codec on an empty bucket, and its key/value calls.
InitStore ==
    /\ objects = [k \in ObjKeys |-> NoObj]
    /\ initMarker = FALSE
    /\ aead \in Codecs
    /\ InitLock
    /\ InitKV

NextKV ==
    \/ \E k \in DataKeys, v \in Values : Store(k, v)
    \/ \E k \in DataKeys : Load(k)
    \/ \E k \in DataKeys : Delete(k)
    \/ \E k \in DataKeys : Exists(k)
    \/ \E k \in DataKeys : Stat(k)

SpecKV == InitStore /\ [][NextKV]_vars

\* A Storage with either codec that stores values of one byte, and a bucket
\* in which objects are copied from key to key behind its back.
NextCopy ==
    \/ \E k \in DataKeys, b \in Bytes : Store(k, <<b>>)
    \/ \E k \in DataKeys : Load(k)
    \/ \E a \in DataKeys, b \in DataKeys : CopyObject(a, b)

SpecCopy == InitStore /\ [][NextCopy]_vars

\* A Storage whose callers store, delete and list keys of several depths.
NextList ==
    \/ \E k \in ListKeys : Store(k, <<>>)
    \/ \E k \in ListKeys : Delete(k)
    \/ \E prefix \in ListPrefixes, recursive \in BOOLEAN : List(prefix, recursive)

SpecList == InitStore /\ [][NextList]_vars

\* A Storage with either codec whose callers make every key/value call on
\* the data keys and list the whole bucket.
NextFrame ==
    \/ \E k \in DataKeys : Store(k, <<>>)
    \/ \E k \in DataKeys : Load(k)
    \/ \E k \in DataKeys : Delete(k)
    \/ \E k \in DataKeys : Exists(k)
    \/ \E k \in DataKeys : Stat(k)
    \/ \E recursive \in BOOLEAN : List(<<>>, recursive)

SpecFrame == InitStore /\ [][NextFrame]_vars

\* The prefixes of the marker's key.
MarkerPrefixes == {<<>>, <<"r">>, objLockName(<<"r">>)}

\* A bucket that may hold the marker of a crashed holder, in which a caller
\* may store a data key before the callers run the timed lock protocol and
\* unlock the key they hold; at any moment a caller lists a prefix of the
\* marker's key, and the listing ends the run.
NextListMarkers ==
    \/ NoLockCallYet /\ resp = NoResp /\ \E k \in DataKeys : Store(k, <<>>)
    \/ resp.op # "List" /\ \E p \in Procs, k \in LockKeys : LockCall(p, k)
    \/ resp.op # "List" /\ \E p \in Procs : LockPut(p)
    \/ resp.op # "List" /\ \E p \in Procs : LockHead(p)
    \/ resp.op # "List" /\ \E p \in Procs : LockDelete(p)
    \/ resp.op # "List" /\ \E p \in Procs : WaitTimeout(p)
    \/ resp.op # "List" /\ \E p \in Procs :
                              pc[p] = "held" /\ Unlock(p, key[p]) /\ UNCHANGED released
    \/ resp.op # "List" /\ TickUrgent
    \/ resp.op # "List" /\ \E prefix \in MarkerPrefixes, recursive \in BOOLEAN :
                              List(prefix, recursive)

SpecListMarkers == Init /\ [][NextListMarkers]_vars


\* ================================================================= the claims

marker(k) == objects[objLockName(k)]

\* A caller holds the lock from the return of its Lock until it calls Unlock or
\* until LockExpiration has elapsed since its marker was created.
HoldsLock(p) ==
    /\ pc[p] = "held"
    /\ now - lease[p] < LockExpiration

MutualExclusion ==
    \A p, q \in Procs :
        (p # q /\ key[p] = key[q]) => ~(HoldsLock(p) /\ HoldsLock(q))

\* C1: whatever the callers of Lock(k) and Unlock(k) do, from a stale marker or
\* from none, no two callers hold the lock for k at the same instant.  (Stated
\* for runs in which Unlock is only called by a caller whose Lock succeeded.)
C1_MutualExclusion ==
    ~misuse => MutualExclusion

\* C2: from an empty bucket, with two callers that each invoke Lock(r) once,
\* one never returns success while the other holds the lock: the second
\* success comes only after the first caller's Unlock or after LockExpiration
\* has elapsed since the first caller's marker was created.
C2_TwoCallers ==
    (~initMarker /\ ~relock /\ ~misuse) => MutualExclusion

\* Both callers have returned success, the second one by reclaiming the
\* first one's expired marker.
C2_Witness ==
    /\ ~initMarker /\ ~relock /\ ~misuse
    /\ \E p, q \in Procs :
        /\ p # q /\ key[p] = key[q]
        /\ pc[p] = "held" /\ pc[q] = "held"
        /\ ret[q].reclaimed
        /\ lease[q] > lease[p] + LockExpiration

\* C3: with requests that take no time, while a Lock(k) call is polling with a
\* live context and no request has failed in transport, a marker never stays
\* in the bucket beyond the age LockExpiration + LockPollInterval: a waiting
\* call removes it within one LockPollInterval of its becoming stale.
C3_ReclaimBound ==
    \A p \in Procs :
        (/\ faults = 0
         /\ pc[p] \in WaitStates
         /\ ~ctxDone[p]
         /\ marker(key[p]).present)
        => now - marker(key[p]).modified <= LockExpiration + LockPollInterval

\* A call that waited on the crashed holder's marker has removed it and holds
\* the lock, acquired at the last instant the bound allows.
C3_Witness ==
    /\ initMarker /\ faults = 0 /\ ~relock
    /\ \E p \in Procs :
        /\ pc[p] = "held"
        /\ ret[p].err = "nil" /\ ret[p].reclaimed /\ ret[p].waited
        /\ lease[p] = LockExpiration + LockPollInterval
        /\ marker(key[p]).present /\ marker(key[p]).by = p

\* The errors of Lock that are the context's cancellation error: ctx.Err()
\* itself, and the one the conditional put returns for a cancelled context.
CancellationErrors == {"context canceled", "creating lock: context canceled"}

\* C4: with requests that take no time, a Lock(k) call whose context is
\* cancelled while it waits on a marker that has not expired is out of Lock
\* within one LockPollInterval, returns the cancellation error, and leaves no
\* marker of its own in the bucket.
C4_CancelWhileWaiting ==
    \A p \in Procs :
        /\ (cancelAt[p] # NoTime /\ pc[p] \in LoopStates)
           => now - cancelAt[p] <= LockPollInterval
        /\ (ret[p].op = "Lock" /\ ret[p].cancelledWaiting)
           => /\ ret[p].err \in CancellationErrors
              /\ \A k \in LockKeys : ~(marker(k).present /\ marker(k).by = p)

\* A call cancelled while waiting on a live marker has returned ctx.Err().
C4_Witness ==
    \E p \in Procs :
        /\ ret[p].op = "Lock" /\ ret[p].cancelledWaiting
        /\ ret[p].err = "context canceled"
        /\ pc[p] = "idle"
        /\ marker(key[p]).present

\* C5: an Unlock(k) whose delete is answered (OK or NoSuchKey) returns nil and
\* leaves the marker absent, whether the marker was there or not: also on a
\* second Unlock in a row, and with no marker at all.
C5_UnlockIdempotent ==
    [][\A p \in Procs, k \in LockKeys :
          (Unlock(p, k) /\ faults' = faults)
          => (ret'[p].err = "nil" /\ ~objects'[objLockName(k)].present)]_vars

\* A second Unlock in a row has found no marker and returned nil.
C5_Witness ==
    \E p \in Procs :
        /\ ret[p].op = "Unlock" /\ ret[p].again /\ ~ret[p].had
        /\ ret[p].err = "nil"
        /\ ~marker(key[p]).present

\* C6: an Unlock(k) called with a context that is already cancelled deletes a
\* marker that is present and returns nil, as with a live context.
C6_UnlockAfterCancel ==
    [][\A p \in Procs, k \in LockKeys :
          (Unlock(p, k) /\ ctxDone[p] /\ objects[objLockName(k)].present /\ faults' = faults)
          => (ret'[p].err = "nil" /\ ~objects'[objLockName(k)].present)]_vars

\* A holder whose context was cancelled has unlocked: the marker is gone.
C6_Witness ==
    \E p \in Procs :
        /\ ret[p].op = "Unlock" /\ ret[p].ctxWasDone /\ ret[p].had
        /\ ret[p].err = "nil"
        /\ ~misuse
        /\ ~marker(key[p]).present

\* C7: with either codec, a Load(k) whose request is answered, made while the
\* last successful write of k is a Store(k, v), returns v and no error.
C7_RoundTrip ==
    (resp.op = "Load" /\ ~resp.fault /\ written[resp.key].present)
    => (resp.err = "nil" /\ resp.val = written[resp.key].val)

\* Under the AEAD codec, a Load right after a Store of a non-empty value has
\* returned that value.
C7_Witness ==
    /\ aead = "aead"
    /\ prevResp.op = "Store" /\ prevResp.err = "nil" /\ Len(prevResp.arg) = MaxLen
    /\ resp.op = "Load" /\ resp.key = prevResp.key
    /\ resp.err = "nil" /\ resp.val = prevResp.arg

\* C8: last write wins: a Load(k) whose request is answered returns the value
\* of the most recent successful Store(k, _) if no Delete(k) followed it, and
\* fs.ErrNotExist otherwise; never an older value.
C8_LastWriteWins ==
    (resp.op = "Load" /\ ~resp.fault)
    => IF written[resp.key].present
       THEN resp.err = "nil" /\ resp.val = written[resp.key].val
       ELSE resp.err = "fs.ErrNotExist" /\ resp.val = <<>>

\* A Load right after a Store that overwrote an existing object has returned
\* the new value.
C8_Witness ==
    /\ prevResp.op = "Store" /\ prevResp.err = "nil" /\ prevResp.pre
    /\ resp.op = "Load" /\ resp.key = prevResp.key
    /\ resp.val = prevResp.arg /\ resp.val # <<>>

\* C9: in a run without transport errors, Exists(k) is true exactly when k
\* has been stored and not deleted since: false before the first Store, true
\* after a Store, false again after a Delete.
C9_Exists ==
    (resp.op = "Exists" /\ faults = 0)
    => (resp.ok = written[resp.key].present)

\* Exists has answered false right after the Delete of a key that was present.
C9_Witness ==
    /\ faults = 0
    /\ prevResp.op = "Delete" /\ prevResp.pre /\ prevResp.err = "nil"
    /\ resp.op = "Exists" /\ resp.key = prevResp.key
    /\ ~resp.ok

C11_DeleteAbsentErrors ==
    (resp.op = "Delete" /\ ~resp.pre /\ ~resp.fault) => resp.err = "fs.ErrNotExist"

\* C12: a Load(k) or Stat(k) of a key that is absent, whose request is answered,
\* returns fs.ErrNotExist with no value; a request that fails otherwise returns
\* an error that is neither nil nor fs.ErrNotExist.
C12_NotFound ==
    resp.op \in {"Load", "Stat"} =>
        /\ (~resp.pre /\ ~resp.fault) =>
               (resp.err = "fs.ErrNotExist" /\ resp.val = <<>> /\ resp.info = NoInfo)
        /\ resp.fault => resp.err \notin {"nil", "fs.ErrNotExist"}
        /\ (resp.pre /\ ~resp.fault) => resp.err # "fs.ErrNotExist"

\* A Load of an absent key was followed by a Stat of the same key, and both
\* returned fs.ErrNotExist.
C12_Witness ==
    /\ prevResp.op = "Load" /\ ~prevResp.pre /\ prevResp.err = "fs.ErrNotExist"
    /\ resp.op = "Stat" /\ resp.key = prevResp.key /\ ~resp.pre
    /\ resp.err = "fs.ErrNotExist"

\* C13: a Stat(k) that returns nil returns a KeyInfo with Key = k, IsTerminal
\* true and Size the length of the bytes stored at k, which is the length of
\* the stored plaintext exactly under the cleartext codec.
C13_StatInfo ==
    (resp.op = "Stat" /\ resp.err = "nil") =>
        /\ resp.pre /\ written[resp.key].present
        /\ resp.info.Key = resp.key
        /\ resp.info.IsTerminal
        /\ resp.info.Size = Len(RawBytes(objects[resp.key].body))
        /\ (resp.info.Size = Len(written[resp.key].val)) <=> (aead = "cleartext")

\* Under the AEAD codec a Stat of a key with a non-empty value has returned a
\* Size above the length of the value.
C13_Witness ==
    /\ resp.op = "Stat" /\ resp.err = "nil" /\ aead = "aead"
    /\ written[resp.key].present /\ Len(written[resp.key].val) > 0
    /\ resp.info.Size > Len(written[resp.key].val)

\* The last two calls: the bytes of Store(a, v) were placed at key b, a # b,
\* and then Load(b) was answered.
LoadOfCopy ==
    /\ prevResp.op = "Copy" /\ prevResp.arg # prevResp.key
    /\ resp.op = "Load" /\ resp.key = prevResp.key /\ ~resp.fault

\* C14 as stated: with either codec, the Load of bytes that were stored at
\* another key fails with a decryption error.
C14_CopyFails ==
    LoadOfCopy => resp.err = "decrypting object"

\* C14: with an AEAD codec, the Load of bytes that were stored at another key
\* fails with a decryption error and returns no value; with the cleartext
\* codec it returns nil and the value v that was stored at the other key.
C14_CopyFailsWithAEAD ==
    LoadOfCopy =>
        /\ aead = "aead" => (resp.err = "decrypting object" /\ resp.val = <<>>)
        /\ aead = "cleartext" => (resp.err = "nil" /\ resp.val = prevResp.val)

\* Under an AEAD codec the Load of a copied non-empty value has failed.
C14_Witness ==
    /\ LoadOfCopy /\ aead = "aead" /\ Len(prevResp.val) > 0
    /\ resp.err = "decrypting object"

\* The keys the bucket holds.
StoredKeys == {k \in ObjKeys : objects[k].present}

\* C15: when the bucket holds "certs/example.com/cert.pem" and nothing else,
\* an answered List("certs/example.com", recursive=false) returns exactly
\* that key.
C15_ListDirectory ==
    ( /\ resp.op = "List" /\ resp.key = <<"certs", "/", "example.com">>
      /\ ~resp.recursive /\ ~resp.fault
      /\ StoredKeys = {CertKey} )
    => resp.names = <<CertKey>>

\* The names of a sequence as a set.
Range(names) == {names[i] : i \in 1..Len(names)}

\* A stored key that starts with prefix at any depth, and one with no
\* delimiter after the prefix.
UnderPrefix(prefix) == {k \in StoredKeys : HasPrefix(k, prefix)}
DirectUnderPrefix(prefix) ==
    {k \in UnderPrefix(prefix) : \A i \in 1..Len(Remainder(k, prefix)) :
                                   Remainder(k, prefix)[i] # "/"}

\* C16: an answered List(prefix, recursive=true) returns every stored key that
\* starts with prefix; an answered List(prefix, recursive=false) returns the
\* stored keys that start with prefix and have no delimiter after it, and so
\* no key deeper than one level below prefix.
C16_ListDepth ==
    (resp.op = "List" /\ resp.err = "nil") =>
        /\ resp.recursive => Range(resp.names) = UnderPrefix(resp.key)
        /\ ~resp.recursive => Range(resp.names) = DirectUnderPrefix(resp.key)

\* A recursive List has returned a key with two delimiters after the prefix,
\* and a non-recursive List of the same bucket would return a key but not it.
C16_Witness ==
    /\ resp.op = "List" /\ resp.err = "nil" /\ resp.recursive
    /\ resp.key = <<>> /\ CertKey \in Range(resp.names)
    /\ DirectUnderPrefix(<<>>) # {} /\ CertKey \notin DirectUnderPrefix(<<>>)

\* C17: an answered List has made as many page requests as the listing has
\* pages and returns the keys of all pages in the bucket's order, each once;
\* a List of which a page request failed returns an error and no names.
C17_Pages ==
    resp.op = "List" =>
        /\ ~resp.fault =>
              /\ resp.err = "nil"
              /\ resp.pages = PageCount(objects, resp.key, ListDelimiter(resp.recursive))
              /\ \A i \in 1..Len(resp.names), j \in 1..Len(resp.names) :
                     i < j => KeyLess(resp.names[i], resp.names[j])
              /\ Range(resp.names) = IF resp.recursive THEN UnderPrefix(resp.key)
                                     ELSE DirectUnderPrefix(resp.key)
        /\ resp.fault => (resp.err # "nil" /\ resp.names = <<>>)

\* A List has returned more keys than one page holds.
C17_Witness ==
    /\ resp.op = "List" /\ resp.err = "nil" /\ resp.pages > 1
    /\ Len(resp.names) > PageSize

\* C18: Exists(k) returns true exactly when its HeadObject succeeds, that is
\* when the request is answered and k is present; on a NoSuchKey answer and
\* on a transport error alike it returns false.
C18_ExistsHead ==
    resp.op = "Exists" => (resp.ok <=> (resp.pre /\ ~resp.fault))

\* Exists has returned false for a key that is present in the bucket, its
\* HeadObject having failed in transport.
C18_Witness ==
    /\ resp.op = "Exists" /\ ~resp.ok
    /\ resp.fault /\ resp.pre /\ objects[resp.key].present

\* The marker of k is created, removed or replaced in this step.
MarkerChanged(k) ==
    \/ marker(k)'.present # marker(k).present
    \/ marker(k)'.modified # marker(k).modified
    \/ marker(k)'.body # marker(k).body

\* C19: a step that creates, removes or replaces the marker of a key k is a
\* request of a Lock call for k or of an Unlock call for k; a call for another
\* key leaves the marker of k as it is.
C19_KeysIndependent ==
    [][\A k \in TwoLockKeys :
          MarkerChanged(k) =>
              \E p \in Procs : \/ Unlock(p, k)
                               \/ key[p] = k /\ (LockPut(p) \/ LockDelete(p))]_vars

\* Two callers hold the locks of two different keys at once, and the second
\* got its lock without waiting while the first held its own.
C19_Witness ==
    \E p \in Procs, q \in Procs :
        /\ key[p] # key[q]
        /\ HoldsLock(p) /\ HoldsLock(q)
        /\ lease[p] < lease[q]
        /\ ret[q].op = "Lock" /\ ret[q].err = "nil" /\ ~ret[q].waited

C21_SuccessByPut ==
    [][/\ \A p \in Procs :
            (ret[p].op = "Lock" /\ ret[p].err = "pending" /\ ret'[p].err = "nil")
            => /\ pc[p] = "put" /\ pc'[p] = "held"
               /\ ~marker(key[p]).present
               /\ marker(key[p])'.present
               /\ marker(key[p])'.by = p
               /\ marker(key[p])'.modified = now
       /\ \A k \in LockKeys :
            (marker(k).present /\ marker(k)'.present)
            => marker(k)'.modified = marker(k).modified]_vars

\* A call that lost its first put, waited, and then returned nil holds the
\* marker its last put created.
C21_Witness ==
    \E p \in Procs :
        /\ pc[p] = "held" /\ ret[p].err = "nil" /\ ret[p].waited
        /\ marker(key[p]).present /\ marker(key[p]).by = p
        /\ marker(key[p]).modified = lease[p]

\* C22: when the delete of a Lock call removes a marker, that marker is stale
\* at that moment: its age exceeds LockExpiration.  (Stated for runs in which
\* Unlock is only called by a caller whose Lock succeeded.)
C22_DeleteOnlyStale ==
    [][\A p \in Procs :
          (~misuse /\ LockDelete(p) /\ marker(key[p]).present /\ ~marker(key[p])'.present)
          => Expired(marker(key[p]).modified, now)]_vars

\* A request of p's Lock call fails in transport in this step.
HeadFails(p) == LockHead(p) /\ faults' = faults + 1
DeleteFails(p) == LockDelete(p) /\ faults' = faults + 1

\* C23 as stated: a head or a delete of Lock that fails with an error other
\* than NotFound makes Lock return an error in that step.
C23_ErrorsAbort ==
    [][\A p \in Procs :
          (HeadFails(p) \/ DeleteFails(p))
          => (pc'[p] = "idle" /\ ret'[p].err \notin {"pending", "nil"})]_vars

\* The selects after a failed head and after a failed delete.
ErrWaitStates == {"waitHeadErr", "waitDeleteErr"}

\* C23: a head or a delete of Lock that fails with an error other than
\* NotFound never makes Lock return: the call enters a wait of
\* LockPollInterval with the bucket and its result untouched, and leaves the
\* wait either when the interval has elapsed, for the conditional put, or
\* when its context is cancelled, returning the context's error.
C23_ErrorsAreRetried ==
    [][\A p \in Procs :
          /\ (HeadFails(p) \/ DeleteFails(p))
             => /\ pc'[p] = (IF pc[p] = "head" THEN "waitHeadErr" ELSE "waitDeleteErr")
                /\ wake'[p] = now + LockPollInterval
                /\ ret'[p] = ret[p]
                /\ objects' = objects
          /\ (pc[p] \in ErrWaitStates /\ pc'[p] # pc[p])
             => \/ pc'[p] = "put" /\ now = wake[p] /\ ret'[p] = ret[p]
                \/ pc'[p] = "idle" /\ ctxDone[p] /\ ret'[p].err = "context canceled"]_vars

\* The only caller that ever called waits after the head of the crashed
\* holder's marker failed in transport.
C23_Witness ==
    \E p \in Procs :
        /\ initMarker /\ marker(key[p]).present /\ faults = 1
        /\ pc[p] = "waitHeadErr" /\ ~ctxDone[p] /\ ret[p].err = "pending"
        /\ wake[p] = now + LockPollInterval
        /\ \A q \in Procs \ {p} : ret[q] = NoRet /\ pc[q] = "idle"

\* The head of p's Lock call is answered NoSuchKey in this step: the marker
\* that made the put fail is gone.
HeadFindsNone(p) ==
    LockHead(p) /\ ~ctxDone[p] /\ faults' = faults /\ ~marker(key[p]).present

\* C24 as stated: when the head of the marker is answered NotFound, Lock goes
\* on to the conditional put at once, without a wait.
C24_NotFoundRetriesAtOnce ==
    [][\A p \in Procs :
          HeadFindsNone(p) => (pc'[p] = "put" /\ wake'[p] = wake[p])]_vars

\* C24: when the head of the marker is answered NotFound, Lock enters a wait
\* of LockPollInterval; it sends no request while it waits, and goes on to
\* the conditional put when the interval has elapsed, or returns the
\* context's error when its context is cancelled first.
C24_NotFoundWaits ==
    [][\A p \in Procs :
          /\ HeadFindsNone(p)
             => /\ pc'[p] = "waitHeadErr"
                /\ wake'[p] = now + LockPollInterval
                /\ objects' = objects
          /\ pc[p] = "waitHeadErr"
             => /\ now <= wake[p]
                /\ ~(LockPut(p) \/ LockHead(p) \/ LockDelete(p))
                /\ pc'[p] = "put" => now = wake[p]
                /\ pc'[p] = "idle" => (ctxDone[p] /\ ret'[p].err = "context canceled")]_vars

\* A call whose head found the marker gone has waited LockPollInterval with
\* no marker in the bucket, and is about to try the put again.
C24_Witness ==
    \E p \in Procs :
        /\ pc[p] = "waitHeadErr" /\ ~ctxDone[p] /\ faults = 0
        /\ ~marker(key[p]).present
        /\ now = wake[p] /\ wake[p] >= LockPollInterval

\* The conditional put of p's Lock call fails in this step with an error that
\* is not an already-exists error: a transport error, or the error of a
\* request made on a cancelled context.
PutFails(p) ==
    LockPut(p) /\ (faults' = faults + 1 \/ ctxDone[p])

\* C25: when the conditional put fails with an error that is not an
\* already-exists error, Lock returns that error, wrapped, in the same step:
\* the call is over, the bucket is as it was and no wait was started.
C25_PutErrorReturns ==
    [][\A p \in Procs :
          PutFails(p)
          => /\ pc'[p] = "idle"
             /\ ret'[p].op = "Lock"
             /\ ret'[p].err = (IF ctxDone[p] THEN "creating lock: context canceled"
                                             ELSE "creating lock: transport")
             /\ objects' = objects
             /\ wake' = wake]_vars

\* A call has returned the transport error of its first put, with the marker
\* of another holder in the bucket.
C25_Witness ==
    \E p \in Procs :
        /\ pc[p] = "idle" /\ ret[p].op = "Lock"
        /\ ret[p].err = "creating lock: transport"
        /\ ~ret[p].waited /\ ~ret[p].reclaimed
        /\ marker(key[p]).present

\* The head of p's Lock call is answered in this step with a marker that is stale.
HeadFindsStale(p) ==
    /\ LockHead(p) /\ ~ctxDone[p] /\ faults' = faults
    /\ marker(key[p]).present
    /\ now - marker(key[p]).modified > LockExpiration

\* The delete of p's Lock call is answered in this step, OK or NoSuchKey.
DeleteAnswered(p) ==
    LockDelete(p) /\ ~ctxDone[p] /\ faults' = faults

\* C26: a Lock call whose head sees a stale marker goes on to the delete of
\* the marker, and when the delete is answered, with OK or with NoSuchKey
\* alike, it goes on to the conditional put with no wait started and without
\* returning.
C26_StaleIsReclaimed ==
    [][\A p \in Procs :
          /\ HeadFindsStale(p)
             => (pc'[p] = "delete" /\ wake' = wake /\ waited' = waited
                 /\ objects' = objects)
          /\ DeleteAnswered(p)
             => /\ pc'[p] = "put"
                /\ wake' = wake /\ waited' = waited
                /\ ret'[p] = ret[p] /\ ret[p].err = "pending"
                /\ ~marker(key[p])'.present]_vars

\* A call has taken the lock from a stale marker without ever waiting: put,
\* head, delete and put again at one instant.
C26_Witness ==
    \E p \in Procs :
        /\ pc[p] = "held" /\ ret[p].err = "nil"
        /\ ret[p].reclaimed /\ ~ret[p].waited
        /\ lease[p] = now /\ now > LockExpiration

\* The head of p's Lock call is answered in this step with a marker that is
\* not stale.
HeadFindsLive(p) ==
    /\ LockHead(p) /\ ~ctxDone[p] /\ faults' = faults
    /\ marker(key[p]).present
    /\ now - marker(key[p]).modified <= LockExpiration

\* C27: a Lock call whose head sees a marker that is not stale enters a wait
\* of LockPollInterval and leaves the bucket as it is; while it waits it
\* sends no request; it leaves the wait for the conditional put when the
\* interval has elapsed, or returns the context's error when its context has
\* been cancelled.
C27_LiveMarkerWaits ==
    [][\A p \in Procs :
          /\ HeadFindsLive(p)
             => /\ pc'[p] = "waitNotExpired"
                /\ wake'[p] = now + LockPollInterval
                /\ objects' = objects
          /\ pc[p] = "waitNotExpired"
             => /\ now <= wake[p]
                /\ ~(LockPut(p) \/ LockHead(p) \/ LockDelete(p))
                /\ pc'[p] # pc[p]
                   => \/ pc'[p] = "put" /\ now = wake[p] /\ ret'[p] = ret[p]
                      \/ /\ pc'[p] = "idle" /\ ctxDone[p]
                         /\ ret'[p].err = "context canceled"]_vars

\* A call has waited a whole LockPollInterval on a marker that is still not
\* stale, and is about to try the put again.
C27_Witness ==
    \E p \in Procs :
        /\ pc[p] = "waitNotExpired" /\ ~ctxDone[p]
        /\ now = wake[p]
        /\ marker(key[p]).present
        /\ now - marker(key[p]).modified <= LockExpiration

\* The errors of Lock that are store errors other than contention.
StoreErrors == {"creating lock: transport"}

\* C28: whatever a Lock call returns is nil, the context's cancellation error
\* or a store error other than contention: never the already-exists error of
\* a conditional put that lost.
C28_ContentionNotSurfaced ==
    \A p \in Procs :
        (ret[p].op = "Lock" /\ ret[p].err # "pending")
        => ret[p].err \in {"nil"} \cup CancellationErrors \cup StoreErrors

\* A call whose put lost, which then waited, has returned an error.
C28_Witness ==
    \E p \in Procs :
        /\ pc[p] = "idle" /\ ret[p].op = "Lock" /\ ret[p].waited
        /\ ret[p].err \in StoreErrors
        /\ marker(key[p]).present

UnlockOfReclaimed(p, k) ==
    /\ Unlock(p, k) /\ faults' = faults
    /\ pc[p] = "held" /\ key[p] = k
    /\ marker(k).present /\ marker(k).by # p

\* C30 as stated: an Unlock(k) by a caller whose marker was reclaimed leaves
\* the marker of the new holder in place.
C30_UnlockRemovesOwnOnly ==
    [][\A p \in Procs, k \in LockKeys :
          UnlockOfReclaimed(p, k) => marker(k)'.present]_vars

\* C30: an Unlock(k) removes whatever marker is at k: an Unlock(k) by a
\* caller whose marker was reclaimed removes the marker of the new holder
\* and returns nil.
C30_UnlockRemovesAny ==
    [][\A p \in Procs, k \in LockKeys :
          UnlockOfReclaimed(p, k)
          => (~marker(k)'.present /\ ret'[p].err = "nil" /\ ret'[p].had)]_vars

\* A caller's Unlock has removed a marker, and the other caller, which had
\* reclaimed the lock, still counts on its lease with no marker in the bucket.
C30_Witness ==
    \E p \in Procs, q \in Procs :
        /\ p # q /\ key[p] = key[q] /\ ~misuse
        /\ pc[p] = "idle" /\ ret[p].op = "Unlock" /\ ret[p].had /\ ret[p].err = "nil"
        /\ HoldsLock(q) /\ ret[q].reclaimed
        /\ ~marker(key[q]).present

\* A caller's head of the marker is answered without a transport error on a
\* live context.
HeadAnswered(q) ==
    LockHead(q) /\ faults' = faults /\ ~ctxDone[q]

\* C31: while the marker of k exists its lastModified does not change in any
\* step, so the lease is never renewed: when a holder has stayed in its
\* critical section for longer than LockExpiration since its Lock returned,
\* its marker still carries the time of that Lock, and another caller's head
\* of it goes on to delete it.
C31_LeaseNeverRenewed ==
    [][/\ \A k \in LockKeys :
            (marker(k).present /\ marker(k)'.present)
            => marker(k)'.modified = marker(k).modified
       /\ \A p \in Procs, q \in Procs :
            (/\ p # q /\ key[q] = key[p]
             /\ pc[p] = "held" /\ marker(key[p]).present /\ marker(key[p]).by = p
             /\ now > lease[p] + LockExpiration
             /\ HeadAnswered(q))
            => (marker(key[p]).modified = lease[p] /\ pc'[q] = "delete")]_vars

\* A holder is still in its critical section after its lease ran out, its
\* marker is in place, and another caller is about to delete it.
C31_Witness ==
    \E p \in Procs, q \in Procs :
        /\ p # q /\ key[q] = key[p] /\ ~misuse
        /\ pc[p] = "held" /\ marker(key[p]).present /\ marker(key[p]).by = p
        /\ marker(key[p]).modified = lease[p]
        /\ now > lease[p] + LockExpiration
        /\ pc[q] = "delete"

\* The latest call of p was a Lock that returned an error.
LockFailed(p) ==
    ret[p].op = "Lock" /\ ret[p].err \notin {"nil", "pending"}

\* No marker in the bucket was created by the latest Lock call of p.
NoMarkerOf(p) ==
    \A k \in LockKeys : ~(marker(k).present /\ marker(k).by = p)

\* A Lock call that returned an error has created no marker.
ErrorCreatesNoMarker ==
    \A p \in Procs : LockFailed(p) => NoMarkerOf(p)

\* C32: a Lock call that returned an error has created no marker, and the
\* markers it deleted, if any, were stale when it deleted them.  (Stated for
\* runs in which Unlock is only called by a caller whose Lock succeeded.)
C32_ErrorLeavesStore ==
    ~misuse => \A p \in Procs :
                   LockFailed(p) => (NoMarkerOf(p) /\ ~ret[p].tookLive)

\* A call waits for its key since before the holder's Unlock was answered,
\* no call that waited with it has acquired the lock since, and the store has
\* returned no error.
Owed(p) ==
    released[p].at # NoTime /\ faults = 0

\* C33 as stated: after the Unlock of the holder, a call that was waiting
\* when the Unlock was answered returns nil within LockPollInterval.
C33_WaiterAcquires ==
    \A p \in Procs : Owed(p) => now <= released[p].at + LockPollInterval

\* While the marker of a caller's key is absent, nothing but a timer of at
\* most LockPollInterval stands between the caller and the lock: its
\* conditional put would be answered with success.
NeverStuck ==
    \A p \in Procs :
        ~marker(key[p]).present
        => /\ PutObject(objects, lockKey(p), Plain(<<>>), TRUE, now, p).code = "OK"
           /\ pc[p] \in WaitStates => wake[p] <= now + LockPollInterval

\* C33: if the holder of k calls Unlock(k) while a Lock(k) call waits on a
\* live context and the store returns no errors, then within LockPollInterval
\* of the Unlock some Lock(k) call returns nil: a call that was waiting, or a
\* call made after the Unlock.  And callers are never stuck on an absent marker.
C33_SomeCallerAcquires ==
    /\ \A p \in Procs :
          Owed(p) => (now <= released[p].at + LockPollInterval \/ released[p].taken)
    /\ NeverStuck

\* A caller that waited when the holder unlocked holds the lock one
\* LockPollInterval later, on the first put after its wait.
C33_Witness ==
    \E p \in Procs :
        /\ faults = 0 /\ ~misuse
        /\ HoldsLock(p) /\ ret[p].waited /\ ~ret[p].reclaimed
        /\ \E q \in Procs :
              /\ q # p /\ key[q] = key[p]
              /\ pc[q] = "idle" /\ ret[q].op = "Unlock" /\ ret[q].had /\ ret[q].err = "nil"
        /\ lease[p] = now /\ now >= LockPollInterval

\* C34: a Lock call whose context has been cancelled returns: it does not
\* stay in its loop, whichever request or select it is at.
C34_CancelledLockReturns ==
    \A p \in Procs : (pc[p] \in LoopStates /\ ctxDone[p]) ~> (pc[p] \notin LoopStates)

\* A Lock call has returned after its context was cancelled on the path that
\* follows the delete of a stale marker.
C34_Witness ==
    \E p \in Procs :
        /\ pc[p] = "idle" /\ ctxDone[p]
        /\ ret[p].op = "Lock" /\ ret[p].err \in CancellationErrors
        /\ ret[p].reclaimed

\* C35: while the marker of k is in the bucket, an answered recursive List of
\* a prefix of the marker's key returns the marker's key, along with the data
\* keys stored under that prefix.
C35_ListShowsMarkers ==
    (resp.op = "List" /\ resp.err = "nil" /\ resp.recursive) =>
        /\ \A k \in LockKeys :
              (marker(k).present /\ HasPrefix(objLockName(k), resp.key))
              => objLockName(k) \in Range(resp.names)
        /\ \A k \in DataKeys :
              (objects[k].present /\ HasPrefix(k, resp.key)) => k \in Range(resp.names)

\* A recursive List of the whole bucket has returned a data key and the
\* marker that a caller's Lock created.
C35_Witness ==
    /\ resp.op = "List" /\ resp.err = "nil" /\ resp.recursive /\ resp.key = <<>>
    /\ \E p \in Procs : pc[p] = "held" /\ marker(key[p]).present /\ marker(key[p]).by = p
    /\ \E k \in DataKeys : k \in Range(resp.names)
    /\ objLockName(<<"r">>) \in Range(resp.names)

\* A Load, Exists, Stat or List call is made in this step.
ReadCall ==
    \/ \E k \in DataKeys : Load(k) \/ Exists(k) \/ Stat(k)
    \/ \E recursive \in BOOLEAN : List(<<>>, recursive)

\* A Store or Delete of k is made in this step and returns an error.
FailedWrite(k) ==
    (Store(k, <<>>) \/ Delete(k)) /\ resp'.err # "nil"

\* C36: a Load, Exists, Stat or List leaves every object of the bucket as it
\* is, whatever it returns, and a Store(k, v) or Delete(k) that returns an
\* error leaves the object at k as it is.
C36_ReadsLeaveStore ==
    [][/\ ReadCall => objects' = objects
       /\ \A k \in DataKeys : FailedWrite(k) => objects'[k] = objects[k]]_vars

\* A Delete has returned an error and the object is still in the bucket,
\* after a Load that returned its value.
C36_Witness ==
    /\ resp.op = "Delete" /\ resp.err # "nil" /\ resp.pre
    /\ objects[resp.key].present
    /\ prevResp.op = "Load" /\ prevResp.err = "nil" /\ prevResp.key = resp.key

====
